---- MODULE Spec2Model ----
(***************************************************************************)
(* Model of the EV dashboard (src/app.py) and of the Gemini chatbot        *)
(* (src/chatbot_app.py).                                                   *)
(*                                                                         *)
(* A CSV cell is a sequence of one-character strings.  Numbers that pandas *)
(* holds as float64 are kept exact: a sign, an integer part and the        *)
(* fraction digits without trailing zeros.  The cell lengths used here     *)
(* keep every float inside the range that Python prints without an         *)
(* exponent (1e-4 <= |x| < 1e16) and every integer below 2^53.             *)
(***************************************************************************)
EXTENDS Integers, Sequences, FiniteSets, TLC

VARIABLES file, cache, ret, called, chart,
          chat_history, api_key_configured, call

appVars  == <<file, cache, ret, called, chart>>
chatVars == <<chat_history, api_key_configured, call>>
vars     == <<file, cache, ret, called, chart,
              chat_history, api_key_configured, call>>

(***************************************************************************)
(* Bounds of the model.                                                    *)
(***************************************************************************)
MaxLen == 2
MaxRows == 2

(***************************************************************************)
(* Characters and numbers.                                                 *)
(***************************************************************************)
Digits == {"0", "1", "2", "3", "4", "5", "6", "7", "8", "9"}

DigitVal(c) ==
    CASE c = "0" -> 0 [] c = "1" -> 1 [] c = "2" -> 2 [] c = "3" -> 3
      [] c = "4" -> 4 [] c = "5" -> 5 [] c = "6" -> 6 [] c = "7" -> 7
      [] c = "8" -> 8 [] c = "9" -> 9

DigitChar(d) ==
    CASE d = 0 -> "0" [] d = 1 -> "1" [] d = 2 -> "2" [] d = 3 -> "3"
      [] d = 4 -> "4" [] d = 5 -> "5" [] d = 6 -> "6" [] d = 7 -> "7"
      [] d = 8 -> "8" [] d = 9 -> "9"

RECURSIVE DigitsToNat(_)
DigitsToNat(s) ==
    IF s = <<>> THEN 0
    ELSE 10 * DigitsToNat(SubSeq(s, 1, Len(s) - 1)) + DigitVal(s[Len(s)])

RECURSIVE NatToDigits(_)
NatToDigits(n) ==
    IF n < 10 THEN <<DigitChar(n)>>
    ELSE Append(NatToDigits(n \div 10), DigitChar(n % 10))

RECURSIVE StripTrailingZeros(_)
StripTrailingZeros(s) ==
    IF s # <<>> /\ s[Len(s)] = "0"
    THEN StripTrailingZeros(SubSeq(s, 1, Len(s) - 1))
    ELSE s

\* A float64/int64 value, or NaN.
NaN == [nan |-> TRUE, neg |-> FALSE, ip |-> 0, frac |-> <<>>]
Number(neg, ip, frac) == [nan |-> FALSE, neg |-> neg, ip |-> ip, frac |-> frac]
Zero == Number(FALSE, 0, <<>>)

\* The value of a number without a fraction, as an integer.
Whole(n) == IF n.neg THEN 0 - n.ip ELSE n.ip

(***************************************************************************)
(* pd.read_csv: the literals the C parser converts, the NA strings and the *)
(* dtype it infers for a column.                                           *)
(***************************************************************************)
Unsigned(s) == IF s # <<>> /\ s[1] = "-" THEN SubSeq(s, 2, Len(s)) ELSE s

IsIntLiteral(s) ==
    LET u == Unsigned(s)
    IN  u # <<>> /\ \A i \in DOMAIN u : u[i] \in Digits

IsFloatLiteral(s) ==
    LET u == Unsigned(s)
    IN  /\ \A i \in DOMAIN u : u[i] \in Digits \cup {"."}
        /\ Cardinality({i \in DOMAIN u : u[i] = "."}) <= 1
        /\ \E i \in DOMAIN u : u[i] \in Digits

NAValues == {<<>>, <<"N", "/", "A">>}

ParseNumber(s) ==
    LET u    == Unsigned(s)
        dots == {i \in DOMAIN u : u[i] = "."}
        d    == IF dots = {} THEN Len(u) + 1 ELSE CHOOSE i \in dots : TRUE
    IN  Number(s # <<>> /\ s[1] = "-",
               DigitsToNat(SubSeq(u, 1, d - 1)),
               StripTrailingZeros(SubSeq(u, d + 1, Len(u))))

ColumnDtype(cells) ==
    IF cells = <<>> THEN "object"
    ELSE IF \A i \in DOMAIN cells : IsIntLiteral(cells[i]) THEN "int64"
    ELSE IF \A i \in DOMAIN cells :
                cells[i] \in NAValues \/ IsFloatLiteral(cells[i]) THEN "float64"
    ELSE "object"

\* An element of a column: a Python str, or a number (NaN for a missing cell).
Str(s) == [t |-> "str", s |-> s, n |-> NaN]
Num(n) == [t |-> "num", s |-> <<>>, n |-> n]

ReadCell(dtype, cell) ==
    IF cell \in NAValues THEN Num(NaN)
    ELSE IF dtype = "object" THEN Str(cell)
    ELSE Num(ParseNumber(cell))

(***************************************************************************)
(* The column operations of load_and_clean_data.                           *)
(***************************************************************************)
\* Series.astype(str): str() of each element.
AsTypeStr(dtype, v) ==
    IF v.t = "str" THEN v.s
    ELSE IF v.n.nan THEN <<"n", "a", "n">>
    ELSE IF dtype = "int64"
         THEN (IF Whole(v.n) < 0 THEN <<"-">> ELSE <<>>) \o NatToDigits(v.n.ip)
    ELSE (IF v.n.neg THEN <<"-">> ELSE <<>>) \o NatToDigits(v.n.ip) \o <<".">>
             \o (IF v.n.frac = <<>> THEN <<"0">> ELSE v.n.frac)

\* Series.str.replace('.', '', regex=False)
StrReplaceDot(s) == SelectSeq(s, LAMBDA c : c # ".")

\* pd.to_numeric(..., errors='coerce') of one element.
ToNumericCoerce(v) ==
    IF v.t = "num" THEN v.n
    ELSE IF IsFloatLiteral(v.s) THEN ParseNumber(v.s)
    ELSE NaN

\* df['value'].fillna(0, inplace=True): with pandas 1.x and 2.x, for which the
\* program was written, the column of df is filled in place.
\* (FillNaNoOp: the fill left out.)
FillNaNoOp(n) == n
FillNa(n) == IF n.nan THEN Zero ELSE n

\* Series.astype(int) of a float without NaN: truncation towards zero.
AsTypeInt(n) == Whole(n)

(***************************************************************************)
(* Files and tables.  A file is missing, has no bytes at all, or is a CSV  *)
(* with a header (cols) and rows; a row has a cell for every column name,  *)
(* and only the cells of the columns in cols exist in the file.            *)
(***************************************************************************)
RequiredColumns == {"parameter", "region", "mode", "powertrain", "year", "value"}

MissingFile == [kind |-> "missing", cols |-> {}, rows |-> <<>>]
EmptyFile   == [kind |-> "empty", cols |-> {}, rows |-> <<>>]
Csv(cols, rows) == [kind |-> "csv", cols |-> cols, rows |-> rows]

RawRow(parameter, region, powertrain, year, value) ==
    [parameter |-> parameter, region |-> region, mode |-> "Cars",
     powertrain |-> powertrain, year |-> year, value |-> value]

DataFrame(cols, rows) == [cols |-> cols, rows |-> rows]
EmptyDataFrame == DataFrame({}, <<>>)

\* DataFrame.empty
IsEmpty(df) == df.rows = <<>> \/ df.cols = {}

Column(rows, name) ==
    [i \in DOMAIN rows |-> IF name = "value" THEN rows[i].value ELSE rows[i].year]

(***************************************************************************)
(* load_and_clean_data, line by line.                                      *)
(***************************************************************************)
\* lines 23-25: the cleaned 'value' column of the raw cells.
CleanValueColumn(cells) ==
    LET dtype == ColumnDtype(cells)
    IN  [i \in DOMAIN cells |->
            FillNa(ToNumericCoerce(Str(StrReplaceDot(
                AsTypeStr(dtype, ReadCell(dtype, cells[i]))))))]

\* line 26: the 'year' column after pd.to_numeric.
NumericYearColumn(cells) ==
    LET dtype == ColumnDtype(cells)
    IN  [i \in DOMAIN cells |-> ToNumericCoerce(ReadCell(dtype, cells[i]))]

\* line 27: df.dropna(subset=['year'], inplace=True); the index labels stay.
\* (FillNaYear: the rows filled with year 0 instead of dropped.)
FillNaYear(rows) ==
    [i \in DOMAIN rows |->
        IF rows[i].year.nan THEN [rows[i] EXCEPT !.year = Zero] ELSE rows[i]]
DropNaYear(rows) == SelectSeq(rows, LAMBDA r : ~r.year.nan)

Returned(df, shown) == [outcome |-> "returned", df |-> df, st_error |-> shown]
Raised(exc) == [outcome |-> exc, df |-> EmptyDataFrame, st_error |-> FALSE]
NoCall == [outcome |-> "none", df |-> EmptyDataFrame, st_error |-> FALSE]

load_and_clean_data(f) ==
    IF f.kind = "missing" THEN Returned(EmptyDataFrame, TRUE)
    ELSE IF f.kind = "empty" THEN Raised("EmptyDataError")
    ELSE IF "value" \notin f.cols \/ "year" \notin f.cols THEN Raised("KeyError")
    ELSE
        LET value == CleanValueColumn(Column(f.rows, "value"))
            year  == NumericYearColumn(Column(f.rows, "year"))
            typed == [i \in DOMAIN f.rows |->
                         [index |-> i - 1,
                          parameter |-> f.rows[i].parameter,
                          region |-> f.rows[i].region,
                          mode |-> f.rows[i].mode,
                          powertrain |-> f.rows[i].powertrain,
                          year |-> year[i],
                          value |-> value[i]]]
            kept  == DropNaYear(typed)
        IN  Returned(DataFrame(f.cols,
                [i \in DOMAIN kept |->
                    [kept[i] EXCEPT !.year = AsTypeInt(kept[i].year)]]), FALSE)

(***************************************************************************)
(* @st.cache_data: the key is the function and its argument, the path,     *)
(* which main never changes; a raised exception is not stored.             *)
(***************************************************************************)
NoCache == [has |-> FALSE, val |-> NoCall]

CachedResult(f, c) == IF c.has THEN c.val ELSE load_and_clean_data(f)

CacheAfter(f, c) ==
    IF ~c.has /\ load_and_clean_data(f).outcome = "returned"
    THEN [has |-> TRUE, val |-> load_and_clean_data(f)]
    ELSE c

NoChart == [type |-> "none", data |-> <<>>]

NoProviderCall ==
    [made |-> FALSE, question |-> "", history |-> <<>>, models |-> <<>>,
     failed |-> FALSE, shown |-> "", raised |-> "", none |-> TRUE, text |-> ""]

AppIdle  == /\ cache = NoCache /\ ret = NoCall /\ called = FALSE /\ chart = NoChart
ChatIdle == /\ chat_history = <<>> /\ api_key_configured = FALSE
            /\ call = NoProviderCall

\* One call of load_and_clean_data(file_path).
Load ==
    /\ ret' = CachedResult(file, cache)
    /\ cache' = CacheAfter(file, cache)
    /\ called' = TRUE
    /\ UNCHANGED <<file, chart>>
    /\ UNCHANGED chatVars

(***************************************************************************)
(* The inputs of the cleaning: every table of at most MaxRows rows whose   *)
(* value cells (or year cells) are the strings of at most MaxLen           *)
(* characters over the alphabet, the examples of the specification, and    *)
(* the files without a header or without one of the columns.               *)
(***************************************************************************)
Alphabet == {"0", "8", "."}

SeqsUpTo(S, n) == UNION {[1..k -> S] : k \in 0..n}

Cells == SeqsUpTo(Alphabet, MaxLen)
SmallCells == {<<"8">>, <<".">>, <<>>, <<"-", "8">>}
Year2022 == <<"2", "0", "2", "2">>

ValueRows == {RawRow("EV sales", "USA", "EV", Year2022, v) : v \in Cells}
YearRows  == {RawRow("EV sales", "USA", "EV", y, <<"8">>) : y \in Cells}
SmallRows == {RawRow("EV sales", "USA", "EV", y, v) : y \in SmallCells, v \in SmallCells}

ExampleRow(value) == RawRow("EV sales", "USA", "EV", Year2022, value)
Example800 == ExampleRow(<<"8", "0", "0", ".", "0", "0", "0">>)
Example200 == ExampleRow(<<"2", "0", "0", ".", "0", "0", "0">>)
ExampleMillions == ExampleRow(<<"1", ".", "2", "0", "0", ".", "0", "0", "0">>)
ExampleNA == ExampleRow(<<"N", "/", "A">>)
ExampleAbc == RawRow("EV sales", "USA", "EV", <<"a", "b", "c">>, <<"8">>)

ExampleTables ==
    { <<Example800, Example200>>,
      <<Example800, Example200, ExampleMillions>>,
      <<Example800, ExampleNA>>,
      <<ExampleAbc, ExampleNA>> }

CleanFiles ==
    {Csv(RequiredColumns, t) :
        t \in SeqsUpTo(ValueRows, MaxRows) \cup SeqsUpTo(YearRows, MaxRows)
              \cup SeqsUpTo(SmallRows, MaxRows) \cup ExampleTables}
    \cup {Csv(RequiredColumns \ {c}, <<ExampleRow(<<"8">>)>>) : c \in RequiredColumns}
    \cup {MissingFile, EmptyFile}

InitClean == /\ file \in CleanFiles /\ AppIdle /\ ChatIdle

NextClean == ~called /\ Load

SpecClean == InitClean /\ [][NextClean]_vars

(***************************************************************************)
(* The file is replaced on disk (another content under the same path).     *)
(***************************************************************************)
CacheRows == {RawRow("EV sales", "USA", "EV", Year2022, v) : v \in {<<"8">>, <<".">>}}

CacheFiles ==
    {Csv(RequiredColumns, t) : t \in SeqsUpTo(CacheRows, MaxRows)} \cup {MissingFile}

ReplaceFile ==
    /\ \E f \in CacheFiles : f # file /\ file' = f
    /\ called' = FALSE
    /\ UNCHANGED <<cache, ret, chart>>
    /\ UNCHANGED chatVars

InitCache == /\ file \in CacheFiles /\ AppIdle /\ ChatIdle

NextCache == Load \/ ReplaceFile

SpecCache == InitCache /\ [][NextCache]_vars

(***************************************************************************)
(* main: the filters of the sidebar, the bar chart and the Pareto chart.   *)
(***************************************************************************)
metric_options == <<"EV stock", "EV sales", "EV stock share", "EV sales share">>

\* The region names of the model, in the order Python compares str.
RegionNames ==
    <<"Australia", "Austria", "Belgium", "Brazil", "Canada", "Chile", "China",
      "Denmark", "Finland", "France", "Germany", "India", "Italy", "Japan",
      "Korea", "Mexico", "Norway", "Poland", "Spain", "USA", "World">>

Rank(name) == CHOOSE i \in DOMAIN RegionNames : RegionNames[i] = name
LexLess(a, b) == Rank(a) < Rank(b)

Years(rows) == {rows[i].year : i \in DOMAIN rows}
MinYear(rows) == CHOOSE y \in Years(rows) : \A z \in Years(rows) : y <= z
MaxYear(rows) == CHOOSE y \in Years(rows) : \A z \in Years(rows) : y >= z

\* lines 71-75
FilteredDf(rows, metric, lo, hi) ==
    SelectSeq(rows, LAMBDA r : r.parameter = metric /\ r.year >= lo /\ r.year <= hi)

\* lines 83 and 166: the boolean mask common to both charts
YearRegionPowertrain(rows, y) ==
    SelectSeq(rows, LAMBDA r : r.year = y /\ r.region # "World" /\ r.powertrain = "EV")

\* Series.sum() of float64 values that are whole numbers; NaN is skipped.
RECURSIVE Sum(_)
Sum(values) ==
    IF values = <<>> THEN 0 ELSE Head(values) + Sum(Tail(values))

SumValues(rows) ==
    Sum([i \in DOMAIN rows |->
            IF rows[i].value.nan THEN 0 ELSE Whole(rows[i].value)])

\* .groupby('region')['value'].sum(): one entry per region, sorted by region.
GroupBySum(rows) ==
    LET present == {rows[i].region : i \in DOMAIN rows}
        keys    == SelectSeq(RegionNames, LAMBDA n : n \in present)
    IN  [k \in DOMAIN keys |->
            [region |-> keys[k],
             value  |-> SumValues(SelectSeq(rows, LAMBDA r : r.region = keys[k]))]]

\* A stable sort, descending by value: equal values keep their order.
\* (InsertBeforeEqual, SortDescendingLast, NLargestKeepLast: equal values in
\* the reverse order, as with keep='last'.)
InsertAfterEqual(sorted, x) ==
    LET k == Cardinality({i \in DOMAIN sorted : sorted[i].value >= x.value})
    IN  SubSeq(sorted, 1, k) \o <<x>> \o SubSeq(sorted, k + 1, Len(sorted))

InsertBeforeEqual(sorted, x) ==
    LET k == Cardinality({i \in DOMAIN sorted : sorted[i].value > x.value})
    IN  SubSeq(sorted, 1, k) \o <<x>> \o SubSeq(sorted, k + 1, Len(sorted))

RECURSIVE SortDescending(_)
SortDescending(s) ==
    IF s = <<>> THEN <<>>
    ELSE InsertAfterEqual(SortDescending(SubSeq(s, 1, Len(s) - 1)), s[Len(s)])

RECURSIVE SortDescendingLast(_)
SortDescendingLast(s) ==
    IF s = <<>> THEN <<>>
    ELSE InsertBeforeEqual(SortDescendingLast(SubSeq(s, 1, Len(s) - 1)), s[Len(s)])

\* Series.nlargest(n), keep='first'
NLargestKeepLast(s, n) ==
    SubSeq(SortDescendingLast(s), 1, IF n < Len(s) THEN n ELSE Len(s))
NLargest(s, n) ==
    SubSeq(SortDescending(s), 1, IF n < Len(s) THEN n ELSE Len(s))

TopRegions == 15

\* line 83
BarData(rows, metric, lo, hi, y) ==
    NLargest(GroupBySum(YearRegionPowertrain(FilteredDf(rows, metric, lo, hi), y)),
             TopRegions)

\* Series.cumsum()  (NoCumSum: the values themselves, not accumulated.)
RECURSIVE CumSum(_)
NoCumSum(values) == values
CumSum(values) ==
    IF values = <<>> THEN <<>>
    ELSE LET before == CumSum(SubSeq(values, 1, Len(values) - 1))
         IN  Append(before, (IF before = <<>> THEN 0 ELSE before[Len(before)])
                            + values[Len(values)])

\* 100 * cumulative_sum / total, kept as the fraction num / den.
Percent(cumulative, total) == [num |-> 100 * cumulative, den |-> total]

\* lines 166-170.  sort_values orders equal sums in no documented order; the
\* three columns kept here are the same for every such order.
ParetoData(rows, metric, lo, hi, y) ==
    LET groups == SortDescending(
                    GroupBySum(YearRegionPowertrain(FilteredDf(rows, metric, lo, hi), y)))
        value  == [i \in DOMAIN groups |-> groups[i].value]
        cumul  == CumSum(value)
        total  == Sum(value)
    IN  [i \in DOMAIN groups |->
            [value |-> value[i], cumulative_sum |-> cumul[i],
             cumulative_perc |-> Percent(cumul[i], total)]]

Chart(type, metric, lo, hi, y, data) ==
    [type |-> type, metric |-> metric, lo |-> lo, hi |-> hi, year |-> y,
     data |-> data]

\* line 42, common to every run of main
MainLoads ==
    /\ ret' = CachedResult(file, cache)
    /\ cache' = CacheAfter(file, cache)
    /\ called' = TRUE
    /\ UNCHANGED file
    /\ UNCHANGED chatVars

HasData(r) == r.outcome = "returned" /\ ~IsEmpty(r.df)

\* lines 44-45, or the exception of load_and_clean_data ends the run
MainNoData ==
    /\ MainLoads
    /\ ~HasData(CachedResult(file, cache))
    /\ chart' = NoChart

Selections(rows) ==
    LET range == MinYear(rows)..MaxYear(rows)
    IN  {sel \in [metric : {metric_options[i] : i \in DOMAIN metric_options},
                  lo : range, hi : range, year : range] : sel.lo <= sel.hi}

BarChart ==
    /\ MainLoads
    /\ HasData(CachedResult(file, cache))
    /\ LET rows == CachedResult(file, cache).df.rows
       IN  \E sel \in Selections(rows) :
              chart' = Chart("bar", sel.metric, sel.lo, sel.hi, sel.year,
                             BarData(rows, sel.metric, sel.lo, sel.hi, sel.year))

ParetoChart ==
    /\ MainLoads
    /\ HasData(CachedResult(file, cache))
    /\ LET rows == CachedResult(file, cache).df.rows
       IN  \E sel \in Selections(rows) :
              chart' = Chart("pareto", sel.metric, sel.lo, sel.hi, sel.year,
                             ParetoData(rows, sel.metric, sel.lo, sel.hi, sel.year))

(***************************************************************************)
(* The tables of the charts: one 'EV sales' row for each of the first      *)
(* NRegions regions, in ascending or descending order of the name, with    *)
(* the values of a repeated pattern, followed by at most MaxExtra rows.    *)
(***************************************************************************)
NRegions == 16
MaxExtra == 1

Patterns ==
    { <<<<"1">>>>, <<<<"1">>, <<"2">>>>, <<<<"2">>, <<"1">>, <<"1">>>>,
      <<<<"0">>, <<"1">>>>, <<<<"3">>, <<"1">>, <<"2">>>>, <<<<"0">>>> }

Year2021 == <<"2", "0", "2", "1">>

BaseRows(pattern, ascending) ==
    [i \in 1..NRegions |->
        LET k == IF ascending THEN i ELSE NRegions + 1 - i
        IN  RawRow("EV sales", RegionNames[k], "EV", Year2022,
                   pattern[((k - 1) % Len(pattern)) + 1])]

ExtraRows ==
    { RawRow("EV sales", RegionNames[1], "EV", Year2022, <<"2">>),
      RawRow("EV sales", RegionNames[NRegions], "EV", Year2022, <<"2">>),
      RawRow("EV sales", RegionNames[NRegions + 1], "EV", Year2022, <<"1">>),
      RawRow("EV sales", RegionNames[1], "EV", Year2022, <<"-", "3">>),
      RawRow("EV sales", RegionNames[2], "EV", Year2022, <<".">>),
      RawRow("EV sales", "World", "EV", Year2022, <<"9">>),
      RawRow("EV sales", RegionNames[1], "BEV", Year2022, <<"9">>),
      RawRow("EV sales", RegionNames[1], "EV", Year2021, <<"9">>),
      RawRow("EV stock", RegionNames[1], "EV", Year2022, <<"9">>) }

QueryFiles ==
    {Csv(RequiredColumns, BaseRows(p, a) \o x) :
        p \in Patterns, a \in BOOLEAN, x \in SeqsUpTo(ExtraRows, MaxExtra)}
    \cup {Csv(RequiredColumns, <<>>), MissingFile}

InitQuery == /\ file \in QueryFiles /\ AppIdle /\ ChatIdle

NextQuery == MainNoData \/ BarChart \/ ParetoChart

SpecQuery == InitQuery /\ [][NextQuery]_vars

(***************************************************************************)
(* chatbot_app.py.  The provider (start_chat, send_message, response.text) *)
(* answers a request with a text, possibly empty, or raises an exception.  *)
(***************************************************************************)
MaxPrompts == 3

Prompts == {"p1", "p2"}
ProviderOutcomes ==
    { [error |-> "", text |-> "r1"], [error |-> "", text |-> ""],
      [error |-> "e1", text |-> ""], [error |-> "e2", text |-> ""] }

Message(role, text) == [role |-> role, parts |-> <<text>>]

\* lines 17-35: model 'gemini-pro', one send_message, every exception caught.
ProviderCall(question, history, answer, raised) ==
    [made |-> TRUE, question |-> question, history |-> history,
     models |-> <<"gemini-pro">>, failed |-> answer.error # "",
     shown |-> answer.error, raised |-> raised,
     none |-> answer.error # "", text |-> answer.text]

\* (get_gemini_response_raising: the exception wrapped and raised again.)
get_gemini_response_raising(question, history, answer) ==
    ProviderCall(question, history, answer,
                 IF answer.error # "" THEN "ProviderError" ELSE "")
get_gemini_response(question, history, answer) ==
    ProviderCall(question, history, answer, "")

\* lines 46-50
SaveKey ==
    /\ api_key_configured' = TRUE
    /\ UNCHANGED <<chat_history, call>>
    /\ UNCHANGED appVars

\* lines 46, 51-52: the text input is empty
SaveEmptyKey ==
    /\ UNCHANGED chatVars
    /\ UNCHANGED appVars

\* lines 69-72
PromptWithoutKey ==
    /\ ~api_key_configured
    /\ \E user_prompt \in Prompts : UNCHANGED chatVars
    /\ UNCHANGED appVars

UserTurns(history) == Cardinality({i \in DOMAIN history : history[i].role = "user"})

\* lines 69, 73-88
Prompt ==
    /\ api_key_configured
    /\ UserTurns(chat_history) < MaxPrompts
    /\ \E user_prompt \in Prompts, answer \in ProviderOutcomes :
          LET appended == Append(chat_history, Message("user", user_prompt))
              response == get_gemini_response(user_prompt, appended, answer)
          IN  /\ call' = response
              /\ chat_history' =
                    IF ~response.none /\ response.text # ""
                    THEN Append(appended, Message("model", response.text))
                    ELSE appended
    /\ UNCHANGED api_key_configured
    /\ UNCHANGED appVars

InitChat == /\ file = MissingFile /\ AppIdle /\ ChatIdle

NextChat == SaveKey \/ SaveEmptyKey \/ PromptWithoutKey \/ Prompt

SpecChat == InitChat /\ [][NextChat]_vars

(***************************************************************************)
(* Properties of load_and_clean_data (SpecClean).                          *)
(***************************************************************************)
Cleaned == called /\ ret.outcome = "returned" /\ file.kind = "csv"

\* The input row an output row comes from: its index label, counted from 0.
Source(r) == file.rows[r.index + 1]

YearParses(cell) == cell \notin NAValues /\ IsFloatLiteral(cell)

\* With '.' stripped, the cell is no number: nothing, or not only digits
\* after an optional sign.
ValueUnparseable(cell) ==
    cell \in NAValues \/ ~IsIntLiteral(SelectSeq(cell, LAMBDA c : c # "."))

\* C1: every row whose value is missing or cannot be parsed is kept (when its
\* year parses) with value 0.0; no row of the cleaned table has a missing
\* value; no row is dropped because of its value.
C1_UnparseableValueIsZero ==
    Cleaned =>
        /\ \A j \in DOMAIN ret.df.rows : ~ret.df.rows[j].value.nan
        /\ \A i \in DOMAIN file.rows :
              YearParses(file.rows[i].year) =>
                 \E j \in DOMAIN ret.df.rows :
                    /\ ret.df.rows[j].index = i - 1
                    /\ ValueUnparseable(file.rows[i].value) =>
                          ret.df.rows[j].value = Zero

C1_Witness ==
    /\ Cleaned
    /\ \E j, k \in DOMAIN ret.df.rows :
          /\ Source(ret.df.rows[j]).value = <<".">>
          /\ ret.df.rows[j].value = Zero
          /\ Source(ret.df.rows[k]).value = <<>>
          /\ ret.df.rows[k].value = Zero

\* C2: the rows of the cleaned table are exactly the input rows whose year
\* parses as a number, in their original order, each with the integer part of
\* that number as its year and its other fields unchanged.
C2_RowsWithNumericYearKept ==
    Cleaned =>
        LET out == ret.df.rows
        IN  /\ Len(out) = Cardinality({i \in DOMAIN file.rows :
                                          YearParses(file.rows[i].year)})
            /\ \A j \in DOMAIN out :
                  /\ out[j].index + 1 \in DOMAIN file.rows
                  /\ YearParses(Source(out[j]).year)
                  /\ out[j].year \in Int
                  /\ out[j].year = Whole(ParseNumber(Source(out[j]).year))
                  /\ out[j].region = Source(out[j]).region
                  /\ out[j].parameter = Source(out[j]).parameter
                  /\ out[j].powertrain = Source(out[j]).powertrain
                  /\ out[j].mode = Source(out[j]).mode
            /\ \A j, k \in DOMAIN out : j < k => out[j].index < out[k].index

C2_Witness ==
    /\ Cleaned
    /\ Len(file.rows) = 2
    /\ ~YearParses(file.rows[1].year)
    /\ file.rows[2].year = <<"8", ".">>
    /\ Len(ret.df.rows) = 1
    /\ ret.df.rows[1].index = 1
    /\ ret.df.rows[1].year = 8

\* Digit groups separated by '.': digits and single dots, a digit at each end.
DigitGroups(cell) ==
    /\ cell # <<>>
    /\ \A i \in DOMAIN cell : cell[i] \in Digits \cup {"."}
    /\ cell[1] \in Digits /\ cell[Len(cell)] \in Digits
    /\ \A i \in 1..(Len(cell) - 1) : ~(cell[i] = "." /\ cell[i + 1] = ".")

\* C3: a value of digit groups separated by '.' is cleaned to the number its
\* digits form without the separators; the table of "800.000" and "200.000"
\* is cleaned to 800000.0 and 200000.0, which sum to 1000000.0 for the region.
C3_ThousandsSeparatorRemoved ==
    Cleaned =>
        /\ \A j \in DOMAIN ret.df.rows :
              DigitGroups(Source(ret.df.rows[j]).value) =>
                 /\ ~ret.df.rows[j].value.nan
                 /\ ret.df.rows[j].value.frac = <<>>
                 /\ Whole(ret.df.rows[j].value)
                      = DigitsToNat(SelectSeq(Source(ret.df.rows[j]).value,
                                              LAMBDA c : c # "."))
        /\ file.rows = <<Example800, Example200>> =>
              /\ Whole(ret.df.rows[1].value) = 800000
              /\ Whole(ret.df.rows[2].value) = 200000
              /\ GroupBySum(ret.df.rows) = <<[region |-> "USA", value |-> 1000000]>>

\* C4: an input without one of the required columns fails with
\* ParseError(MissingColumn), an input without any byte gives an empty table,
\* and no other exception leaves load_and_clean_data.
C4_ErrorOutcomes ==
    called =>
        /\ ret.outcome \in {"returned", "ParseError"}
        /\ file.kind = "empty" => ret.outcome = "returned" /\ IsEmpty(ret.df)
        /\ (file.kind = "csv" /\ RequiredColumns \ file.cols # {}) =>
              ret.outcome = "ParseError"

(***************************************************************************)
(* The cache (SpecCache).                                                  *)
(***************************************************************************)
\* C5: what load_and_clean_data returns is the cleaning of the content the
\* file has at the call, whatever was loaded and replaced before.
C5_ReturnsCleaningOfCurrentContent ==
    called => ret = load_and_clean_data(file)

(***************************************************************************)
(* The charts (SpecQuery).                                                 *)
(***************************************************************************)
\* The rows the chart's filters select, and the sum of each of their regions.
Selected ==
    SelectSeq(ret.df.rows,
              LAMBDA r : /\ r.parameter = chart.metric
                         /\ r.year >= chart.lo /\ r.year <= chart.hi
                         /\ r.year = chart.year
                         /\ r.region # "World" /\ r.powertrain = "EV")

SelectedRegions == {Selected[i].region : i \in DOMAIN Selected}

RegionTotal(region) ==
    Sum([i \in DOMAIN Selected |->
            IF Selected[i].region = region THEN Whole(Selected[i].value) ELSE 0])

PercentLeq(p, q) ==
    IF p.den > 0 THEN p.num * q.den <= q.num * p.den
    ELSE p.num * q.den >= q.num * p.den

ParetoShape ==
    /\ \A i \in 1..(Len(chart.data) - 1) :
          PercentLeq(chart.data[i].cumulative_perc, chart.data[i + 1].cumulative_perc)
    /\ chart.data # <<>>
    /\ chart.data[Len(chart.data)].cumulative_perc.num
          = 100 * chart.data[Len(chart.data)].cumulative_perc.den

SelectedTotal == Sum([i \in DOMAIN Selected |-> Whole(Selected[i].value)])

\* C7 as stated: whenever the selected values have a non-zero total, the
\* cumulative percentages never decrease and end at 100.
C7_ParetoAnyValues ==
    (chart.type = "pareto" /\ SelectedTotal # 0) => ParetoShape

\* C7, amended: whenever no selected value is negative and their total is not
\* zero, the cumulative percentages never decrease and end at 100.
C7_ParetoNonNegativeValues ==
    ( /\ chart.type = "pareto"
      /\ SelectedTotal # 0
      /\ \A i \in DOMAIN Selected : Whole(Selected[i].value) >= 0 ) => ParetoShape

C7_Witness ==
    /\ chart.type = "pareto"
    /\ SelectedTotal # 0
    /\ \A i \in DOMAIN Selected : Whole(Selected[i].value) >= 0
    /\ Len(chart.data) > 15
    /\ chart.data[1].value > chart.data[Len(chart.data)].value
    /\ chart.data[1].cumulative_perc.num < 100 * chart.data[1].cumulative_perc.den
    /\ ParetoShape

(***************************************************************************)
(* The chatbot (SpecChat).                                                 *)
(***************************************************************************)
\* C8 as stated: a call in which every model failed fails with ProviderError
\* carrying the last error.
C8_FailsWithProviderError ==
    (call.made /\ call.failed) => (call.raised = "ProviderError" /\ call.shown # "")

\* C8, amended: a call asks the one model 'gemini-pro' once and tries no
\* other; when that fails, it raises nothing, shows the error and returns
\* None, and the history gets no 'model' entry; otherwise it returns the text.
C8_SingleModelNoRetry ==
    call.made =>
        /\ call.models = <<"gemini-pro">>
        /\ call.raised = ""
        /\ call.failed <=> call.shown # ""
        /\ call.failed <=> call.none
        /\ call.failed =>
              chat_history[Len(chat_history)] = Message("user", call.question)

C8_Witness ==
    /\ call.made /\ call.failed /\ call.shown = "e2" /\ call.none
    /\ Len(chat_history) > 1

\* C9: chat_history alternates 'user', 'model', 'user', ... from its first
\* entry on.
C9_RolesAlternate ==
    \A i \in DOMAIN chat_history :
        chat_history[i].role = IF i % 2 = 1 THEN "user" ELSE "model"

\* C10: the history handed to get_gemini_response is the chat history as it
\* was before the prompt was submitted.
C10_HistoryExcludesPrompt ==
    [][chat_history' # chat_history => call'.history = chat_history]_vars

====
